---- MODULE Spec2Model ----
(***************************************************************************)
(* Slot realization passes of eurostat-nlg: the numeral pass               *)
(* (eu_number_realizer.py), the morphological pass                         *)
(* (core/morphological_realizer.py) and the English deep-morphology        *)
(* realizer (english_uralicNLP_morphological_realizer.py).                 *)
(*                                                                         *)
(* Python strings are TLA+ strings; a slot's datum is a tagged value, a    *)
(* number (Num) or a text (Str), because the code treats the two           *)
(* differently (dictionary keys are texts, `in [11, 12, 13]` numbers).     *)
(***************************************************************************)
EXTENDS Integers, Sequences, FiniteSets, TLC

\* ------------------------------------------------------------------ bounds
\* Numerals 0..MaxNum are realized, as a number and as its numeral text.
MaxNum == 23
\* How many passes the orchestrator runs over the same tree.
MaxRuns == 2

\* ------------------------------------------------------- python primitives
Str(s) == [t |-> "str", s |-> s, n |-> 0]
Num(n) == [t |-> "num", s |-> "", n |-> n]

Digits == <<"0", "1", "2", "3", "4", "5", "6", "7", "8", "9">>

\* str(n) of a non-negative int: its decimal digits.
RECURSIVE IntToStr(_)
IntToStr(n) ==
    IF n < 10 THEN Digits[n + 1]
    ELSE IntToStr(n \div 10) \o Digits[(n % 10) + 1]

\* str(value), which is also what "{}".format(value) prints.
PyStr(v) == IF v.t = "str" THEN v.s ELSE IntToStr(v.n)

\* s.endswith(suffix)
EndsWith(s, suffix) ==
    /\ Len(s) >= Len(suffix)
    /\ SubSeq(s, Len(s) - Len(suffix) + 1, Len(s)) = suffix

LowerLetters == "abcdefghijklmnopqrstuvwxyz"
UpperLetters == "ABCDEFGHIJKLMNOPQRSTUVWXYZ"

CharAt(s, i) == SubSeq(s, i, i)

CharLower(c) ==
    IF \E i \in 1..Len(UpperLetters) : CharAt(UpperLetters, i) = c
    THEN CharAt(LowerLetters, CHOOSE i \in 1..Len(UpperLetters) : CharAt(UpperLetters, i) = c)
    ELSE c

CharUpper(c) ==
    IF \E i \in 1..Len(LowerLetters) : CharAt(LowerLetters, i) = c
    THEN CharAt(UpperLetters, CHOOSE i \in 1..Len(LowerLetters) : CharAt(LowerLetters, i) = c)
    ELSE c

\* s.lower() and s.upper()
RECURSIVE StrLower(_)
StrLower(s) ==
    IF Len(s) = 0 THEN "" ELSE CharLower(CharAt(s, 1)) \o StrLower(SubSeq(s, 2, Len(s)))

RECURSIVE StrUpper(_)
StrUpper(s) ==
    IF Len(s) = 0 THEN "" ELSE CharUpper(CharAt(s, 1)) \o StrUpper(SubSeq(s, 2, Len(s)))

\* dict.get(key, default) of a dictionary with text keys: a number is never
\* equal to a text key, so it always misses.
DictGet(dict, key, default) ==
    IF key.t = "str" /\ key.s \in DOMAIN dict THEN dict[key.s] ELSE default

\* What a realizer call produces: its text, or an exception.
Returned(text) == [raised |-> FALSE, text |-> text]
Raised == [raised |-> TRUE, text |-> ""]

\* ------------------------------------------------------------ rule tables
\* The tables' words are opaque texts; their non-ASCII letters are written in
\* ASCII here (a-umlaut "ae", o-umlaut "oe", u-umlaut "ue", s-caron "sh", c-caron "ch").
FinnishCardinals ==
    [k \in {"1", "2", "3", "4", "5", "6", "7", "8", "9", "10"} |->
        CASE k = "1" -> "yksi" [] k = "2" -> "kaksi" [] k = "3" -> "kolme"
          [] k = "4" -> "neljae" [] k = "5" -> "viisi" [] k = "6" -> "kuusi"
          [] k = "7" -> "seitsemaen" [] k = "8" -> "kahdeksan"
          [] k = "9" -> "yhdeksaen" [] k = "10" -> "kymmenen"]

FinnishOrdinals ==
    [k \in {"1", "2", "3", "4", "5", "6", "7", "8", "9", "10"} |->
        CASE k = "1" -> "ensimmaeinen" [] k = "2" -> "toinen" [] k = "3" -> "kolmas"
          [] k = "4" -> "neljaes" [] k = "5" -> "viides" [] k = "6" -> "kuudes"
          [] k = "7" -> "seitsemaes" [] k = "8" -> "kahdeksas"
          [] k = "9" -> "yhdeksaes" [] k = "10" -> "kymmenes"]

EnglishCardinals ==
    [k \in {"1", "2", "3", "4", "5", "6", "7", "8", "9", "10"} |->
        CASE k = "1" -> "one" [] k = "2" -> "two" [] k = "3" -> "three"
          [] k = "4" -> "four" [] k = "5" -> "five" [] k = "6" -> "six"
          [] k = "7" -> "seven" [] k = "8" -> "eight"
          [] k = "9" -> "nine" [] k = "10" -> "ten"]

EnglishOrdinals ==
    [k \in {"1", "2", "3", "4", "5", "6", "7", "8", "9", "10", "11", "12"} |->
        CASE k = "1" -> "first" [] k = "2" -> "second" [] k = "3" -> "third"
          [] k = "4" -> "fourth" [] k = "5" -> "fifth" [] k = "6" -> "sixth"
          [] k = "7" -> "seventh" [] k = "8" -> "eighth"
          [] k = "9" -> "ninth" [] k = "10" -> "tenth"
          [] k = "11" -> "eleventh" [] k = "12" -> "twelfth"]

GermanCardinals ==
    [k \in {"1", "2", "3", "4", "5", "6", "7", "8", "9", "10", "11", "12"} |->
        CASE k = "1" -> "eins" [] k = "2" -> "zwei" [] k = "3" -> "drei"
          [] k = "4" -> "vier" [] k = "5" -> "fuenf" [] k = "6" -> "sechs"
          [] k = "7" -> "sieben" [] k = "8" -> "acht"
          [] k = "9" -> "neun" [] k = "10" -> "zehn"
          [] k = "11" -> "elf" [] k = "12" -> "zwoelf"]

EstonianCardinals ==
    [k \in {"1", "2", "3", "4", "5", "6", "7", "8", "9", "10"} |->
        CASE k = "1" -> "ueks" [] k = "2" -> "kaks" [] k = "3" -> "kolm"
          [] k = "4" -> "neli" [] k = "5" -> "viis" [] k = "6" -> "kuus"
          [] k = "7" -> "seitse" [] k = "8" -> "kaheksa"
          [] k = "9" -> "ueheksa" [] k = "10" -> "kuemme"]

SlovenianCardinals ==
    [k \in {"1", "2", "3", "4", "5", "6", "7", "8", "9", "10"} |->
        CASE k = "1" -> "ena" [] k = "2" -> "dva" [] k = "3" -> "tri"
          [] k = "4" -> "shtiri" [] k = "5" -> "pet" [] k = "6" -> "shest"
          [] k = "7" -> "sedem" [] k = "8" -> "osem"
          [] k = "9" -> "devet" [] k = "10" -> "deset"]

EstonianOrdinals ==
    [k \in {"1", "2", "3", "4", "5", "6", "7", "8", "9", "10"} |->
        CASE k = "1" -> "esimene" [] k = "2" -> "teine" [] k = "3" -> "kolmas"
          [] k = "4" -> "neljas" [] k = "5" -> "viies" [] k = "6" -> "kuues"
          [] k = "7" -> "seitsmes" [] k = "8" -> "kaheksas"
          [] k = "9" -> "ueheksas" [] k = "10" -> "kuemnes"]

\* SlovenianOrdinalRealizer.SMALL_ORDINALS, which realize never reads.
SlovenianOrdinals ==
    [k \in {"1", "2", "3", "4", "5", "6", "7", "8", "9", "10", "11", "12"} |->
        CASE k = "1" -> "prvi" [] k = "2" -> "drugi" [] k = "3" -> "tretji"
          [] k = "4" -> "chetrti" [] k = "5" -> "peti" [] k = "6" -> "shesti"
          [] k = "7" -> "sedmi" [] k = "8" -> "osmi"
          [] k = "9" -> "deveti" [] k = "10" -> "deseti"
          [] k = "11" -> "enajsti" [] k = "12" -> "dvanajsti"]

\* --------------------------------------------------------- number realizers
\* DictionaryRealizer.realize: the word of str(value), else str(value).
DictionaryRealize(dictionary, value) ==
    Returned(DictGet(dictionary, Str(PyStr(value)), PyStr(value)))

\* FinnishOrdinalRealizer.realize: the lookup key is the value itself.
FinnishOrdinalRealize(value) ==
    Returned(DictGet(FinnishOrdinals, value, PyStr(value) \o "."))

EstonianOrdinalRealize(value) ==
    Returned(DictGet(EstonianOrdinals, value, PyStr(value) \o "."))

\* EnglishOrdinalRealizer._get_suffix: `value in [11, 12, 13]` compares the
\* value with numbers, so a text never matches; str(value)[-1] raises
\* IndexError on the empty text.
EnglishInTeens(value) == value.t = "num" /\ value.n \in {11, 12, 13}

EnglishGetSuffix(value) ==
    IF EnglishInTeens(value) THEN Returned("th")
    ELSE IF Len(PyStr(value)) = 0 THEN Raised
    ELSE LET last == CharAt(PyStr(value), Len(PyStr(value)))
         IN  IF last = "1" THEN Returned("st")
             ELSE IF last = "2" THEN Returned("nd")
             ELSE IF last = "3" THEN Returned("rd")
             ELSE Returned("th")

\* EnglishOrdinalRealizer.realize: the default of .get() is an argument, so
\* _get_suffix runs (and may raise) before the lookup.
EnglishOrdinalRealize(value) ==
    IF PyStr(value) = "1" THEN Returned("")
    ELSE LET suffix == EnglishGetSuffix(value)
         IN  IF suffix.raised THEN Raised
             ELSE Returned(DictGet(EnglishOrdinals, value, PyStr(value) \o suffix.text))

CroatianOrdinalRealize(value) == Returned(PyStr(value) \o ".")

RussianOrdinalRealize(value) ==
    IF PyStr(value) = "1" THEN Returned("") ELSE Returned(PyStr(value))

\* Mutant: the (unused) SMALL_ORDINALS table is consulted.
SlovenianOrdinalRealizeWithTable(value) ==
    IF PyStr(value) = "1" THEN Returned("")
    ELSE Returned(DictGet(SlovenianOrdinals, value, PyStr(value) \o "."))

\* SlovenianOrdinalRealizer.realize: SMALL_ORDINALS is not consulted.
SlovenianOrdinalRealize(value) ==
    IF PyStr(value) = "1" THEN Returned("") ELSE Returned(PyStr(value) \o ".")

\* EUNumberRealizer.__init__: language -> the categories it registers.
Realizers ==
    [l \in {"fi", "en", "hr", "de", "ru", "ee", "sl"} |->
        CASE l = "fi" -> {"car", "ord"}
          [] l = "en" -> {"car", "ord"}
          [] l = "hr" -> {"ord"}
          [] l = "de" -> {"car"}
          [] l = "ru" -> {"ord"}
          [] l = "ee" -> {"car", "ord"}
          [] l = "sl" -> {"car", "ord"}]

\* self.realizers.get(language, {})
LanguageSpecificRealizers(language) ==
    IF language \in DOMAIN Realizers THEN Realizers[language] ELSE {}

\* realizer.realize(slot) of the realizer registered under (language, category).
RealizerRealize(language, category, value) ==
    CASE category = "ord" /\ language = "fi" -> FinnishOrdinalRealize(value)
      [] category = "ord" /\ language = "en" -> EnglishOrdinalRealize(value)
      [] category = "ord" /\ language = "hr" -> CroatianOrdinalRealize(value)
      [] category = "ord" /\ language = "ru" -> RussianOrdinalRealize(value)
      [] category = "ord" /\ language = "ee" -> EstonianOrdinalRealize(value)
      [] category = "ord" /\ language = "sl" -> SlovenianOrdinalRealize(value)
      [] category = "car" /\ language = "fi" -> DictionaryRealize(FinnishCardinals, value)
      [] category = "car" /\ language = "en" -> DictionaryRealize(EnglishCardinals, value)
      [] category = "car" /\ language = "de" -> DictionaryRealize(GermanCardinals, value)
      [] category = "car" /\ language = "ee" -> DictionaryRealize(EstonianCardinals, value)
      [] category = "car" /\ language = "sl" -> DictionaryRealize(SlovenianCardinals, value)

\* language[:-5] when the code ends with "-head"
NormalizeLanguage(language) ==
    IF EndsWith(language, "-head") THEN SubSeq(language, 1, Len(language) - 5)
    ELSE language

\* MorphologicalRealizer.language_realizers: the languages with a registered
\* LanguageSpecificMorphologicalRealizer; the English one registers as "en".
LanguageRealizers == {"en"}

\* EnglishUralicNLPMorphologicalRealizer.case_map
CaseMap == [k \in {"genitive"} |-> "GEN"]

\* Mutant: the synonym table is not consulted.
CanonicalCaseUpperOnly(case) == StrUpper(case)

\* self.case_map.get(case.lower(), case.upper())
CanonicalCase(case) ==
    IF StrLower(case) \in DOMAIN CaseMap THEN CaseMap[StrLower(case)] ELSE StrUpper(case)

\* uralicApi.analyze: an ordered list of (analysis, weight) candidates, maybe empty.
AnalyzeResults(text) ==
    { <<>>, << <<text \o "+N", 0>>, <<text \o "+V", 0>> >> }

\* uralicApi.generate: an ordered list of (surface form, weight) candidates, maybe empty.
GenerateResults(analysis) ==
    { <<>>, << <<"<" \o analysis \o ">", 0>>, <<"<<" \o analysis \o ">>", 0>> >> }

\* ------------------------------------------------------- the document plan
AttrBool(b) == [t |-> "bool", b |-> b, s |-> ""]
AttrStr(s) == [t |-> "str", b |-> FALSE, s |-> s]

\* Python truthiness of an attribute value.
Truthy(a) == IF a.t = "bool" THEN a.b ELSE Len(a.s) > 0

NoAttributes == [k \in {} |-> AttrBool(FALSE)]
Attributes1(k, a) == [x \in {k} |-> a]
Attributes2(k1, a1, k2, a2) == [x \in {k1, k2} |-> IF x = k1 THEN a1 ELSE a2]

\* A Slot: its raw datum, its attributes, and whether its resolver has been
\* replaced by a constant function (and the text that function returns).
NewSlot(fact, attributes) ==
    [fact |-> fact, attributes |-> attributes, baked |-> FALSE, text |-> Str("")]

\* Slot.value (getter): the resolver applied to the datum.
SlotValue(slot) == IF slot.baked THEN slot.text ELSE slot.fact

\* Slot.value = lambda x: text (setter): only the resolver changes.
SetValue(slot, text) == [slot EXCEPT !.baked = TRUE, !.text = text]

\* The slots a plan's leaves are drawn from.
SlotInputs ==
    { NewSlot(Str("1"), Attributes1("ord", AttrBool(TRUE))),
      NewSlot(Num(2), Attributes1("ord", AttrStr("yes"))),
      NewSlot(Str("3"), NoAttributes),
      NewSlot(Str("2"), Attributes1("ord", AttrBool(FALSE))),
      NewSlot(Str("cat"), Attributes1("case", AttrStr("Genitive"))),
      NewSlot(Str("4"), Attributes2("ord", AttrBool(TRUE), "case", AttrStr("Nom"))) }

\* A plan with one message holding the number n and its numeral text, both
\* ordinal-flagged.
PairPlans ==
    { [kind |-> <<"node", "message", "slot", "slot">>,
       children |-> << <<2>>, <<>>, <<>>, <<>> >>,
       components |-> << <<>>, <<3, 4>>, <<>>, <<>> >>,
       slots |-> [i \in {3, 4} |->
                    NewSlot(IF i = 3 THEN Num(n) ELSE Str(IntToStr(n)),
                            Attributes1("ord", AttrBool(TRUE)))]]
      : n \in 0..MaxNum }

\* A plan with two messages, the first with the template
\* [Literal, Slot A, Literal, Slot B], the second under a nested node.
ExamplePlans ==
    { [kind |-> <<"node", "message", "node", "literal", "slot", "literal", "slot",
                  "message", "slot">>,
       children |-> << <<2, 3>>, <<>>, <<8>>, <<>>, <<>>, <<>>, <<>>, <<>>, <<>> >>,
       components |-> << <<>>, <<4, 5, 6, 7>>, <<>>, <<>>, <<>>, <<>>, <<>>, <<9>>, <<>> >>,
       slots |-> [i \in {5, 7, 9} |-> IF i = 5 THEN a ELSE IF i = 7 THEN b ELSE c]]
      : a \in SlotInputs, b \in SlotInputs, c \in SlotInputs }

LanguageCodes == {"en", "en-head", "fi", "hr", "de", "ru", "ee", "sl", "xx"}

Root == 1

VARIABLES
    kind,        \* node -> "node" | "message" | "literal" | "slot"
    children,    \* node -> its ordered child nodes
    components,  \* message -> its template's ordered components
    slots,       \* slot node -> the Slot
    language,    \* the language code handed to every pass
    lang,        \* the normalized language of the running pass
    passes,      \* the passes run so far, the running one last
    pc,          \* "idle" | "number" | "morph" | "realize" | "generate" | "done" | "raised"
    stack,       \* the _recurse activations, innermost last
    call,        \* the language realizer's current (or last) invocation
    pre,         \* the plan as it was when the running pass started
    writes,      \* slot -> assignments to its resolver in the running pass
    calls,       \* slot -> invocations of the language realizer in the running pass
    visited,     \* the nodes _recurse was called on in the running pass
    errors,      \* log.error calls of the running pass
    warnings,    \* log.warning calls of the running pass
    invoked      \* the (language, category) number realizers the running pass invoked

vars == <<kind, children, components, slots, language, lang, passes, pc, stack, call,
          pre, writes, calls, visited, errors, warnings, invoked>>

Nodes == DOMAIN kind
SlotNodes == {n \in Nodes : kind[n] = "slot"}

NoCall ==
    [slot |-> 0, left |-> <<>>, right |-> <<>>, original |-> Str(""), case |-> "",
     analysis |-> "", services |-> <<>>, returned |-> FALSE, result |-> Str("")]

Init ==
    /\ \E plan \in PairPlans \cup ExamplePlans :
        /\ kind = plan.kind
        /\ children = plan.children
        /\ components = plan.components
        /\ slots = plan.slots
        /\ pre = [kind |-> plan.kind, children |-> plan.children,
                  components |-> plan.components, slots |-> plan.slots]
        /\ writes = [n \in DOMAIN plan.slots |-> 0]
        /\ calls = [n \in DOMAIN plan.slots |-> 0]
    /\ language \in LanguageCodes
    /\ lang = ""
    /\ passes = <<>>
    /\ pc = "idle"
    /\ stack = <<>>
    /\ call = NoCall
    /\ visited = {}
    /\ errors = 0
    /\ warnings = 0
    /\ invoked = {}

\* ---------------------------------------------------------------- traversal
Top == stack[Len(stack)]

\* A Message's children are its template's components; every other node's are
\* its own child list.
ChildrenOf(n) == IF kind[n] = "message" THEN components[n] ELSE children[n]

\* A pass starts: its bookkeeping is reset and _recurse is called on the root.
Begin(pass) ==
    /\ pc \in {"idle", "done"}
    /\ Len(passes) < MaxRuns
    /\ passes' = Append(passes, pass)
    /\ lang' = NormalizeLanguage(language)
    /\ pre' = [kind |-> kind, children |-> children, components |-> components,
               slots |-> slots]
    /\ writes' = [n \in SlotNodes |-> 0]
    /\ calls' = [n \in SlotNodes |-> 0]
    /\ errors' = 0
    /\ invoked' = {}
    /\ call' = NoCall
    /\ UNCHANGED <<kind, children, components, slots, language>>

\* _recurse(child): a new activation, on top of its caller's.
Enter(child) ==
    /\ stack' = Append([stack EXCEPT ![Len(stack)].idx = @ + 1],
                       [node |-> child, idx |-> 0])
    /\ visited' = visited \cup {child}

\* The innermost _recurse returns; the pass returns when it was the root's.
Leave ==
    /\ stack' = SubSeq(stack, 1, Len(stack) - 1)
    /\ pc' = IF Len(stack) = 1 THEN "done" ELSE pc

\* ------------------------------------------------------------ numeral pass
\* this.attributes and this.attributes.get("ord")
OrdRequested(slot) ==
    /\ DOMAIN slot.attributes # {}
    /\ "ord" \in DOMAIN slot.attributes
    /\ Truthy(slot.attributes["ord"])

\* Mutant: the cardinal realizer is looked up.
NumberCategoryCardinal == "car"

\* The category _recurse looks up for a flagged slot.
NumberCategory == "ord"

\* EUNumberRealizer.run
NumberRun ==
    /\ Begin("number")
    /\ pc' = "number"
    /\ stack' = <<[node |-> Root, idx |-> 0]>>
    /\ visited' = {Root}
    /\ warnings' = 0

\* _recurse on a Slot that is not flagged `ord`: nothing happens.
NumberSlotSkip ==
    /\ pc = "number"
    /\ kind[Top.node] = "slot"
    /\ ~OrdRequested(slots[Top.node])
    /\ Leave
    /\ UNCHANGED <<kind, children, components, slots, language, lang, passes, call, pre,
                   writes, calls, visited, errors, warnings, invoked>>

\* Mutant: the missing realizer is an exception that leaves run.
NumberSlotNoRealizerRaises ==
    /\ pc = "number"
    /\ kind[Top.node] = "slot"
    /\ OrdRequested(slots[Top.node])
    /\ "ord" \notin LanguageSpecificRealizers(lang)
    /\ pc' = "raised"
    /\ UNCHANGED <<kind, children, components, slots, language, lang, passes, stack, call,
                   pre, writes, calls, visited, errors, warnings, invoked>>

\* _recurse on a flagged Slot with no realizer of the category: log.error.
NumberSlotNoRealizer ==
    /\ pc = "number"
    /\ kind[Top.node] = "slot"
    /\ OrdRequested(slots[Top.node])
    /\ NumberCategory \notin LanguageSpecificRealizers(lang)
    /\ errors' = errors + 1
    /\ Leave
    /\ UNCHANGED <<kind, children, components, slots, language, lang, passes, call, pre,
                   writes, calls, visited, warnings, invoked>>

\* _recurse on a flagged Slot: realize it and replace its resolver.
NumberSlotRealize ==
    /\ pc = "number"
    /\ kind[Top.node] = "slot"
    /\ OrdRequested(slots[Top.node])
    /\ NumberCategory \in LanguageSpecificRealizers(lang)
    /\ LET new_value == RealizerRealize(lang, NumberCategory, SlotValue(slots[Top.node]))
       IN  /\ ~new_value.raised
           /\ slots' = [slots EXCEPT ![Top.node] = SetValue(@, Str(new_value.text))]
    /\ writes' = [writes EXCEPT ![Top.node] = @ + 1]
    /\ invoked' = invoked \cup {<<lang, NumberCategory>>}
    /\ Leave
    /\ UNCHANGED <<kind, children, components, language, lang, passes, call, pre,
                   calls, visited, errors, warnings>>

\* _recurse on a flagged Slot whose realizer raises: the exception leaves run.
NumberSlotRaise ==
    /\ pc = "number"
    /\ kind[Top.node] = "slot"
    /\ OrdRequested(slots[Top.node])
    /\ NumberCategory \in LanguageSpecificRealizers(lang)
    /\ RealizerRealize(lang, NumberCategory, SlotValue(slots[Top.node])).raised
    /\ invoked' = invoked \cup {<<lang, NumberCategory>>}
    /\ pc' = "raised"
    /\ UNCHANGED <<kind, children, components, slots, language, lang, passes, stack, call,
                   pre, writes, calls, visited, errors, warnings>>

\* _recurse on a non-Slot node: the next child of `for child in this.children`.
NumberRecurseChild ==
    /\ pc = "number"
    /\ kind[Top.node] # "slot"
    /\ Top.idx < Len(ChildrenOf(Top.node))
    /\ Enter(ChildrenOf(Top.node)[Top.idx + 1])
    /\ UNCHANGED <<kind, children, components, slots, language, lang, passes, pc, call,
                   pre, writes, calls, errors, warnings, invoked>>

\* _recurse on a non-Slot node: the loop is over.
NumberReturn ==
    /\ pc = "number"
    /\ kind[Top.node] # "slot"
    /\ Top.idx = Len(ChildrenOf(Top.node))
    /\ Leave
    /\ UNCHANGED <<kind, children, components, slots, language, lang, passes, call, pre,
                   writes, calls, visited, errors, warnings, invoked>>

\* ------------------------------------------------------ morphological pass
\* MorphologicalRealizer.run when the language has no realizer: a warning.
MorphRunUnsupported ==
    /\ Begin("morph")
    /\ NormalizeLanguage(language) \notin LanguageRealizers
    /\ warnings' = 1
    /\ pc' = "done"
    /\ stack' = <<>>
    /\ visited' = {}

\* MorphologicalRealizer.run
MorphRun ==
    /\ Begin("morph")
    /\ NormalizeLanguage(language) \in LanguageRealizers
    /\ warnings' = 0
    /\ pc' = "morph"
    /\ stack' = <<[node |-> Root, idx |-> 0]>>
    /\ visited' = {Root}

\* _recurse on a node that is no Message: the next child.
MorphRecurseChild ==
    /\ pc = "morph"
    /\ kind[Top.node] # "message"
    /\ Top.idx < Len(children[Top.node])
    /\ Enter(children[Top.node][Top.idx + 1])
    /\ UNCHANGED <<kind, children, components, slots, language, lang, passes, pc, call,
                   pre, writes, calls, errors, warnings, invoked>>

\* _recurse returns: a node's children, or a Message's components, are done.
MorphReturn ==
    /\ pc = "morph"
    /\ Top.idx = (IF kind[Top.node] = "message" THEN Len(components[Top.node])
                  ELSE Len(children[Top.node]))
    /\ Leave
    /\ UNCHANGED <<kind, children, components, slots, language, lang, passes, call, pre,
                   writes, calls, visited, errors, warnings, invoked>>

\* The component at the loop's index is no Slot.
MorphSkipComponent ==
    /\ pc = "morph"
    /\ kind[Top.node] = "message"
    /\ Top.idx < Len(components[Top.node])
    /\ kind[components[Top.node][Top.idx + 1]] # "slot"
    /\ stack' = [stack EXCEPT ![Len(stack)].idx = @ + 1]
    /\ UNCHANGED <<kind, children, components, slots, language, lang, passes, pc, call,
                   pre, writes, calls, visited, errors, warnings, invoked>>

\* Mutants: the slices are off by one and take in the slot itself.
LeftContextThroughIdx(comps, idx) == SubSeq(comps, 1, idx + 1)
RightContextFromIdx(comps, idx) == SubSeq(comps, idx + 1, Len(comps))

\* components[:idx] and components[idx + 1:], idx counted from 0.
LeftContext(comps, idx) == SubSeq(comps, 1, idx)
RightContext(comps, idx) == SubSeq(comps, idx + 2, Len(comps))

\* The component at the loop's index is a Slot: the language realizer is
\* called with the slot and the two slices.
MorphInvoke ==
    /\ pc = "morph"
    /\ kind[Top.node] = "message"
    /\ Top.idx < Len(components[Top.node])
    /\ LET comps == components[Top.node]
           slot == comps[Top.idx + 1]
       IN  /\ kind[slot] = "slot"
           /\ call' = [NoCall EXCEPT !.slot = slot,
                                     !.left = LeftContext(comps, Top.idx),
                                     !.right = RightContext(comps, Top.idx),
                                     !.original = SlotValue(slots[slot])]
           /\ calls' = [calls EXCEPT ![slot] = @ + 1]
    /\ pc' = "realize"
    /\ UNCHANGED <<kind, children, components, slots, language, lang, passes, stack, pre,
                   writes, visited, errors, warnings, invoked>>

\* Mutant: the loop does not move on, so the slot is realized again.
MorphAssignAgain(text) ==
    /\ slots' = [slots EXCEPT ![call.slot] = SetValue(@, text)]
    /\ writes' = [writes EXCEPT ![call.slot] = @ + 1]
    /\ stack' = stack
    /\ pc' = "morph"

\* realize returns `text`; _recurse replaces the slot's resolver and goes on.
MorphAssign(text) ==
    /\ slots' = [slots EXCEPT ![call.slot] = SetValue(@, text)]
    /\ writes' = [writes EXCEPT ![call.slot] = @ + 1]
    /\ stack' = [stack EXCEPT ![Len(stack)].idx = @ + 1]
    /\ pc' = "morph"

\* realize: no `case` attribute, the slot's value is returned.
RealizeNoCase ==
    /\ pc = "realize"
    /\ "case" \notin DOMAIN slots[call.slot].attributes
    /\ MorphAssign(SlotValue(slots[call.slot]))
    /\ call' = [call EXCEPT !.returned = TRUE, !.result = SlotValue(slots[call.slot])]
    /\ UNCHANGED <<kind, children, components, language, lang, passes, pre, calls,
                   visited, errors, warnings, invoked>>

\* realize: analyze finds nothing; a warning, and the slot's value is returned.
RealizeNoAnalysis ==
    /\ pc = "realize"
    /\ "case" \in DOMAIN slots[call.slot].attributes
    /\ LET value == SlotValue(slots[call.slot])
       IN  /\ <<>> \in AnalyzeResults(PyStr(value))
           /\ MorphAssign(value)
           /\ call' = [call EXCEPT
                         !.case = CanonicalCase(slots[call.slot].attributes["case"].s),
                         !.services = Append(@, [op |-> "analyze", arg |-> PyStr(value),
                                                   reply |-> <<>>]),
                         !.returned = TRUE, !.result = value]
    /\ warnings' = warnings + 1
    /\ UNCHANGED <<kind, children, components, language, lang, passes, pre, calls,
                   visited, errors, invoked>>

\* realize: the first analysis is picked and the case tag appended to it.
RealizeAnalyze ==
    /\ pc = "realize"
    /\ "case" \in DOMAIN slots[call.slot].attributes
    /\ LET value == SlotValue(slots[call.slot])
           case == CanonicalCase(slots[call.slot].attributes["case"].s)
       IN  \E possible_analyses \in AnalyzeResults(PyStr(value)) :
             /\ Len(possible_analyses) # 0
             /\ call' = [call EXCEPT
                           !.case = case,
                           !.services = Append(@, [op |-> "analyze", arg |-> PyStr(value),
                                                     reply |-> possible_analyses]),
                           !.analysis = possible_analyses[1][1] \o "+" \o case]
    /\ pc' = "generate"
    /\ UNCHANGED <<kind, children, components, slots, language, lang, passes, stack, pre,
                   writes, calls, visited, errors, warnings, invoked>>

\* realize: generate finds nothing; a warning, and the slot's value is returned.
RealizeNoGeneration ==
    /\ pc = "generate"
    /\ <<>> \in GenerateResults(call.analysis)
    /\ MorphAssign(SlotValue(slots[call.slot]))
    /\ call' = [call EXCEPT
                  !.services = Append(@, [op |-> "generate", arg |-> call.analysis,
                                          reply |-> <<>>]),
                  !.returned = TRUE, !.result = SlotValue(slots[call.slot])]
    /\ warnings' = warnings + 1
    /\ UNCHANGED <<kind, children, components, language, lang, passes, pre, calls,
                   visited, errors, invoked>>

\* realize: the first generated surface form is returned.
RealizeGenerate ==
    /\ pc = "generate"
    /\ \E generations \in GenerateResults(call.analysis) :
         /\ Len(generations) # 0
         /\ MorphAssign(Str(generations[1][1]))
         /\ call' = [call EXCEPT
                       !.services = Append(@, [op |-> "generate", arg |-> call.analysis,
                                               reply |-> generations]),
                       !.returned = TRUE, !.result = Str(generations[1][1])]
    /\ UNCHANGED <<kind, children, components, language, lang, passes, pre, calls,
                   visited, errors, warnings, invoked>>

Next ==
    \/ NumberRun
    \/ NumberSlotSkip
    \/ NumberSlotNoRealizer
    \/ NumberSlotRealize
    \/ NumberSlotRaise
    \/ NumberRecurseChild
    \/ NumberReturn
    \/ MorphRunUnsupported
    \/ MorphRun
    \/ MorphRecurseChild
    \/ MorphReturn
    \/ MorphSkipComponent
    \/ MorphInvoke
    \/ RealizeNoCase
    \/ RealizeNoAnalysis
    \/ RealizeAnalyze
    \/ RealizeNoGeneration
    \/ RealizeGenerate

Spec == Init /\ [][Next]_vars

\* ------------------------------------------------------------------ claims
\* The pass that is running, or ran last.
Running(pass) == Len(passes) > 0 /\ passes[Len(passes)] = pass

\* The language code is `l`, or `l` in its headline register.
LanguageIs(l) == language \in {l, l \o "-head"}

\* The languages with an ordinal realizer.
OrdinalLanguages == {"fi", "en", "hr", "ru", "ee", "sl"}
HasOrdinalRealizer == \E l \in OrdinalLanguages : LanguageIs(l)

\* A text of decimal digits.
IsNumeral(s) ==
    /\ Len(s) > 0
    /\ \A i \in 1..Len(s) : \E d \in 1..Len(Digits) : CharAt(s, i) = Digits[d]

\* The slot held the numeral text when the running pass started.
HeldNumeral(n) ==
    /\ OrdRequested(pre.slots[n])
    /\ SlotValue(pre.slots[n]).t = "str"
    /\ IsNumeral(SlotValue(pre.slots[n]).s)

\* The slots of a context.
SlotsIn(context) == {context[i] : i \in {j \in 1..Len(context) : kind[context[j]] = "slot"}}

\* C1: a second run of the same pass on the tree its first run realized never
\* raises, whatever text the first run baked into the slots.
C1_RerunNeverRaises ==
    (Len(passes) >= 2 /\ passes[Len(passes)] = passes[Len(passes) - 1]) => pc # "raised"

\* C2: the English ordinal of numeral text: "1" gives "", "2".."12" the
\* irregular words, every other numeral its text and the suffix of its last
\* digit (1 "st", 2 "nd", 3 "rd", else "th"), the values 11, 12 and 13 always
\* taking "th" (so "13" gives "13th" and "21" gives "21st").
C2_SuffixOf(s) ==
    IF s \in {"11", "12", "13"} THEN "th"
    ELSE IF CharAt(s, Len(s)) = "1" THEN "st"
    ELSE IF CharAt(s, Len(s)) = "2" THEN "nd"
    ELSE IF CharAt(s, Len(s)) = "3" THEN "rd"
    ELSE "th"

C2_Ordinal(s) ==
    IF s = "1" THEN ""
    ELSE IF s \in DOMAIN EnglishOrdinals THEN EnglishOrdinals[s]
    ELSE s \o C2_SuffixOf(s)

C2_EnglishOrdinal ==
    (pc = "done" /\ Running("number") /\ LanguageIs("en")) =>
        \A n \in SlotNodes :
            HeldNumeral(n) =>
                SlotValue(slots[n]) = Str(C2_Ordinal(SlotValue(pre.slots[n]).s))

\* C3: the deep-morphology realizer never fails and calls the services in a
\* fixed order: without a `case` attribute no service is called and the
\* slot's value is returned; otherwise analyze is called once on the slot's
\* text and, when it finds nothing, the value is returned without generate;
\* otherwise generate is called once with the first analysis, "+" and the
\* canonical case tag, and the first generated form is returned, or the
\* value when generate finds nothing.
C3_Tag(case) ==
    IF case \in {"genitive", "Genitive", "GENITIVE"} THEN "GEN"
    ELSE IF case = "Nom" THEN "NOM"
    ELSE "?"

C3_ServiceOrder ==
    /\ Running("morph") => pc # "raised"
    /\ pc = "generate" =>
         /\ Len(call.services) = 1
         /\ call.services[1].op = "analyze"
         /\ call.services[1].reply # <<>>
    /\ (pc = "realize") => call.services = <<>>
    /\ call.returned =>
         LET attributes == slots[call.slot].attributes
             said == call.services
         IN  IF "case" \notin DOMAIN attributes
             THEN said = <<>> /\ call.result = call.original
             ELSE /\ Len(said) >= 1
                  /\ said[1].op = "analyze"
                  /\ said[1].arg = call.original.s
                  /\ IF said[1].reply = <<>>
                     THEN Len(said) = 1 /\ call.result = call.original
                     ELSE /\ Len(said) = 2
                          /\ said[2].op = "generate"
                          /\ said[2].arg =
                               said[1].reply[1][1] \o "+" \o C3_Tag(attributes["case"].s)
                          /\ call.result =
                               (IF said[2].reply = <<>> THEN call.original
                                ELSE Str(said[2].reply[1][1]))

C3_Witness ==
    /\ call.returned
    /\ Len(call.services) = 2
    /\ call.services[2].reply # <<>>
    /\ call.result # call.original
    /\ slots[call.slot].attributes["case"].s = "Genitive"

\* C4: after the numeral pass, a slot's resolver has been replaced, by a
\* constant function returning the ordinal realizer's result, exactly when
\* its `ord` attribute is truthy and the normalized language has an ordinal
\* realizer; every other slot is as it was, no datum has changed, and no
\* cardinal realizer has been invoked.
C4_Flagged(n) ==
    /\ "ord" \in DOMAIN pre.slots[n].attributes
    /\ Truthy(pre.slots[n].attributes["ord"])
    /\ HasOrdinalRealizer

C4_OnlyOrdinalsReplaced ==
    (pc = "done" /\ Running("number")) =>
        /\ \A n \in SlotNodes :
             /\ slots[n].fact = pre.slots[n].fact
             /\ slots[n].attributes = pre.slots[n].attributes
             /\ IF C4_Flagged(n)
                THEN /\ writes[n] = 1
                     /\ slots[n].baked
                     /\ \E l \in OrdinalLanguages :
                          /\ LanguageIs(l)
                          /\ slots[n].text =
                               Str(RealizerRealize(l, "ord", SlotValue(pre.slots[n])).text)
                ELSE /\ writes[n] = 0
                     /\ slots[n] = pre.slots[n]
        /\ \A r \in invoked : r[2] # "car"

C4_Witness ==
    /\ pc = "done"
    /\ Running("number")
    /\ \E n \in SlotNodes : writes[n] = 1 /\ ~pre.slots[n].baked
    /\ \E n \in SlotNodes :
         /\ DOMAIN slots[n].attributes = {"ord"}
         /\ ~Truthy(slots[n].attributes["ord"])
         /\ ~slots[n].baked
    /\ \E n \in SlotNodes : DOMAIN slots[n].attributes = {} /\ ~slots[n].baked

\* C5: in a language without an ordinal realizer the numeral pass changes no
\* slot, raises nothing, logs one error for each `ord`-flagged slot and
\* still visits every node of the tree before it returns.
C5_MissingRealizerIsLocal ==
    (Running("number") /\ ~HasOrdinalRealizer) =>
        /\ pc # "raised"
        /\ slots = pre.slots
        /\ errors = Cardinality({n \in SlotNodes \cap visited :
                                    /\ OrdRequested(slots[n])
                                    /\ (pc = "number" => Top.node # n)})
        /\ pc = "done" =>
             /\ visited = Nodes
             /\ errors = Cardinality({n \in SlotNodes : OrdRequested(slots[n])})

C5_Witness ==
    /\ pc = "done"
    /\ Running("number")
    /\ language = "de"
    /\ errors = 2
    /\ \E n \in SlotNodes : ~OrdRequested(slots[n])
    /\ Cardinality(SlotNodes) = 3

\* C6: whenever the language realizer is running for a Slot of a Message, its
\* left context, the slot and its right context make up the template in
\* order, no Slot of the right context has been resolved by this pass yet,
\* and over a whole pass the realizer is invoked exactly once for each Slot
\* of each template.
C6_ContextSlicing ==
    /\ \A n \in SlotNodes : calls[n] <= 1
    /\ pc \in {"realize", "generate"} =>
         /\ kind[Top.node] = "message"
         /\ kind[call.slot] = "slot"
         /\ call.left \o <<call.slot>> \o call.right = components[Top.node]
         /\ \A i \in 1..Len(call.left) : call.left[i] # call.slot
         /\ \A i \in 1..Len(call.right) : call.right[i] # call.slot
         /\ \A n \in SlotsIn(call.right) : writes[n] = 0 /\ slots[n] = pre.slots[n]
         /\ calls[call.slot] = 1
    /\ (pc = "done" /\ Running("morph") /\ LanguageIs("en")) =>
         \A m \in Nodes :
            kind[m] = "message" => \A n \in SlotsIn(components[m]) : calls[n] = 1

C6_Witness ==
    /\ pc = "realize"
    /\ Len(call.left) = 1
    /\ Len(call.right) = 2
    /\ kind[call.left[1]] = "literal"
    /\ SlotsIn(call.right) # {}

\* C7: during and after a pass the plan has the nodes, the child lists and
\* the component lists it had when the pass started, and no Slot's resolver
\* has been assigned more than once by the pass.
C7_ShapeKeptAndSingleWrite ==
    /\ kind = pre.kind
    /\ children = pre.children
    /\ components = pre.components
    /\ DOMAIN slots = DOMAIN pre.slots
    /\ \A n \in SlotNodes : writes[n] <= 1

C7_Witness ==
    /\ pc = "done"
    /\ Cardinality(Nodes) = 9
    /\ \A n \in SlotNodes : writes[n] = 1

\* C8: the other languages' ordinals of numeral text: Finnish and Estonian
\* give their word for "1".."10" and otherwise the numeral and "."; Slovenian
\* gives "" for "1" and otherwise the numeral and "."; Croatian always gives
\* the numeral and "."; Russian gives "" for "1" and otherwise the numeral.
C8_Ordinal(l, s) ==
    CASE l = "fi" -> IF s \in DOMAIN FinnishOrdinals THEN FinnishOrdinals[s] ELSE s \o "."
      [] l = "ee" -> IF s \in DOMAIN EstonianOrdinals THEN EstonianOrdinals[s] ELSE s \o "."
      [] l = "sl" -> IF s = "1" THEN "" ELSE s \o "."
      [] l = "hr" -> s \o "."
      [] l = "ru" -> IF s = "1" THEN "" ELSE s

C8_OtherOrdinals ==
    (pc = "done" /\ Running("number")) =>
        \A l \in {"fi", "ee", "sl", "hr", "ru"} :
            LanguageIs(l) =>
                \A n \in SlotNodes :
                    HeldNumeral(n) =>
                        SlotValue(slots[n]) = Str(C8_Ordinal(l, SlotValue(pre.slots[n]).s))

C8_Witness ==
    /\ pc = "done"
    /\ Running("number")
    /\ language = "sl"
    /\ \E n \in SlotNodes :
         /\ HeldNumeral(n)
         /\ SlotValue(pre.slots[n]) = Str("2")
         /\ SlotValue(slots[n]) = Str("2.")

\* C9, as claimed: whenever the language realizer is running for a Slot, no
\* Slot of its left or right context has had its resolver overwritten by
\* this pass.
C9_NoNeighbourBaked ==
    pc \in {"realize", "generate"} =>
        \A n \in SlotsIn(call.left) \cup SlotsIn(call.right) : writes[n] = 0

\* C9, amended: whenever the language realizer is running for a Slot, no Slot
\* of its right context has had its resolver overwritten by this pass, and
\* every Slot of its left context has had it overwritten, once.
C9_OnlyRightUnresolved ==
    pc \in {"realize", "generate"} =>
        /\ \A n \in SlotsIn(call.right) : writes[n] = 0
        /\ \A n \in SlotsIn(call.left) : writes[n] = 1 /\ slots[n].baked

C9_Witness ==
    /\ pc = "realize"
    /\ \E n \in SlotsIn(call.left) : writes[n] = 1

\* C10: an ordinal realizer gives the number n and the numeral text of n the
\* same text.
C10_NumberAndTextAgree ==
    (pc = "done" /\ Running("number") /\ HasOrdinalRealizer) =>
        \A a \in SlotNodes : \A b \in SlotNodes :
            ( /\ OrdRequested(pre.slots[a])
              /\ OrdRequested(pre.slots[b])
              /\ SlotValue(pre.slots[a]).t = "num"
              /\ SlotValue(pre.slots[b]) = Str(IntToStr(SlotValue(pre.slots[a]).n)) )
            => SlotValue(slots[a]) = SlotValue(slots[b])

====
